---- MODULE Spec2Model ----
(***************************************************************************)
(* Model of the lte-ns3-output-analyzer: the unit normaliser               *)
(* (parse_time_with_units), the two flow-trace parsers (parse_flowmon and  *)
(* parse_flowmon_xml), the run summary, the batch loop of analyzer.py, the *)
(* run loader and comparison of graph_merger.py, the version directory     *)
(* set-up of analyzer/utils.py and the two command line pipelines.         *)
(*                                                                         *)
(* Conventions.  A Python str is a tuple of one-character strings.  A      *)
(* Python float is an exact rational <<n, d>> with d > 0 in lowest terms   *)
(* (rounding of binary floating point is not modelled); <<0, 0>> is the    *)
(* float nan.  A call that can raise returns a record [exc, val]: exc is   *)
(* the name of the exception raised, or "" when the call returned val.     *)
(***************************************************************************)
EXTENDS Integers, Sequences, FiniteSets, TLC

(* ------------------------------ numbers --------------------------------- *)

Abs(x) == IF x < 0 THEN -x ELSE x

\* F(x) with x evaluated once (a local variable of the code)
Bind(x, F(_)) == CHOOSE r \in {F(v) : v \in {x}} : TRUE

\* The arithmetic is written as functions: a function's arguments are
\* evaluated once, before it is applied.
gcd[a \in Nat, b \in Nat] == IF b = 0 THEN a ELSE gcd[b, a % b]

Q == Int \X Int

\* the rational n/d in lowest terms, d > 0
rat[n \in Int, d \in Int] ==
    IF n = 0 THEN <<0, 1>>
    ELSE IF d < 0 THEN <<(-n) \div gcd[Abs(n), Abs(d)], (-d) \div gcd[Abs(n), Abs(d)]>>
    ELSE <<n \div gcd[Abs(n), Abs(d)], d \div gcd[Abs(n), Abs(d)]>>

\* x * y, the common factors divided out before the products are formed
rmul[x \in Q, y \in Q] ==
    rat[(x[1] \div gcd[Abs(x[1]), Abs(y[2])]) * (y[1] \div gcd[Abs(y[1]), Abs(x[2])]),
        (x[2] \div gcd[Abs(y[1]), Abs(x[2])]) * (y[2] \div gcd[Abs(x[1]), Abs(y[2])])]

radd[x \in Q, y \in Q] == rat[x[1] * y[2] + y[1] * x[2], x[2] * y[2]]

Rat(n, d) == rat[n, d]
Zero == <<0, 1>>
NaN == <<0, 0>>
IsNaN(x) == x[2] = 0
FromInt(i) == <<i, 1>>
RMul(x, y) == rmul[x, y]
\* x / y for y /= 0
RDiv(x, y) == rmul[x, <<y[2], y[1]>>]
RAdd(x, y) == radd[x, y]
RSub(x, y) == radd[x, <<-y[1], y[2]>>]
RPos(x) == x[1] > 0 /\ x[2] > 0

RECURSIVE Pow10(_)
Pow10(k) == IF k = 0 THEN 1 ELSE 10 * Pow10(k - 1)

(* ------------------------- Python str, int(), float() ------------------- *)

DigitChars == <<"0", "1", "2", "3", "4", "5", "6", "7", "8", "9">>
IsDigit(c) == \E i \in 1..Len(DigitChars) : DigitChars[i] = c
DigitVal(c) == (CHOOSE i \in 1..Len(DigitChars) : DigitChars[i] = c) - 1
AllDigits(s) == \A i \in 1..Len(s) : IsDigit(s[i])

RECURSIVE DigitsVal(_)
DigitsVal(s) ==
    IF s = <<>> THEN 0
    ELSE 10 * DigitsVal(SubSeq(s, 1, Len(s) - 1)) + DigitVal(s[Len(s)])

Ok(v) == [exc |-> "", val |-> v]
Raise(e) == [exc |-> e, val |-> Zero]

HasSign(s) == Len(s) > 0 /\ s[1] \in {"-", "+"}
Unsigned(s) == IF HasSign(s) THEN Tail(s) ELSE s
SignOf(s) == IF Len(s) > 0 /\ s[1] = "-" THEN -1 ELSE 1

\* int(s) of a str: an optional sign and one or more decimal digits
PyInt(s) ==
    IF Len(Unsigned(s)) > 0 /\ AllDigits(Unsigned(s))
    THEN Ok(FromInt(SignOf(s) * DigitsVal(Unsigned(s))))
    ELSE Raise("ValueError")

DotPositions(u) == {i \in 1..Len(u) : u[i] = "."}

\* the value of the digits ip, a point and the digits fp
Decimal(sign, ip, fp) ==
    Rat(sign * (DigitsVal(ip) * Pow10(Len(fp)) + DigitsVal(fp)), Pow10(Len(fp)))

\* float(s) of a str: an optional sign, decimal digits with at most one
\* point and at least one digit (exponents, inf and nan are not modelled)
PyFloat(s) ==
    Bind(Unsigned(s), LAMBDA u :
      Bind(DotPositions(u), LAMBDA dots :
        IF dots = {}
        THEN IF Len(u) > 0 /\ AllDigits(u)
             THEN Ok(FromInt(SignOf(s) * DigitsVal(u)))
             ELSE Raise("ValueError")
        ELSE IF Cardinality(dots) = 1
        THEN Bind(CHOOSE i \in dots : TRUE, LAMBDA p :
               IF /\ AllDigits(SubSeq(u, 1, p - 1))
                  /\ AllDigits(SubSeq(u, p + 1, Len(u)))
                  /\ Len(u) > 1
               THEN Ok(Decimal(SignOf(s), SubSeq(u, 1, p - 1), SubSeq(u, p + 1, Len(u))))
               ELSE Raise("ValueError"))
        ELSE Raise("ValueError")))

\* s.endswith(suffix)
EndsWith(s, suffix) ==
    /\ Len(s) >= Len(suffix)
    /\ SubSeq(s, Len(s) - Len(suffix) + 1, Len(s)) = suffix

\* s[:-k]
DropLast(s, k) == SubSeq(s, 1, Len(s) - k)

\* x scaled by the float literal num/den, when x was returned
Scaled(r, num, den) ==
    IF r.exc = "" THEN Ok(RMul(r.val, Rat(num, den))) ELSE r

(* ---------------------------- unit normaliser --------------------------- *)

NsPerMs == 1000000
MsPerS == 1000

\* a plausible slip: the "s" test placed before the "ns" and "ms" tests
parse_time_seconds_first(value) ==
    IF EndsWith(value, <<"s">>)
    THEN Scaled(PyFloat(DropLast(value, 1)), MsPerS, 1)
    ELSE IF EndsWith(value, <<"n", "s">>)
    THEN Scaled(PyFloat(DropLast(value, 2)), 1, NsPerMs)
    ELSE IF EndsWith(value, <<"m", "s">>)
    THEN PyFloat(DropLast(value, 2))
    ELSE PyFloat(value)

parse_time_with_units(value) ==
    IF EndsWith(value, <<"n", "s">>)
    THEN Scaled(PyFloat(DropLast(value, 2)), 1, NsPerMs)
    ELSE IF EndsWith(value, <<"m", "s">>)
    THEN PyFloat(DropLast(value, 2))
    ELSE IF EndsWith(value, <<"s">>)
    THEN Scaled(PyFloat(DropLast(value, 1)), MsPerS, 1)
    ELSE PyFloat(value)

(* ------------------------------ XML elements ---------------------------- *)

\* An element (or attribute) that may be absent: elem is None when it is not
\* present; elem.get('value') is None when it is present without the attribute.
Absent == [present |-> FALSE, attr |-> FALSE, value |-> <<>>]
NoValue == [present |-> TRUE, attr |-> FALSE, value |-> <<>>]
Elem(v) == [present |-> TRUE, attr |-> TRUE, value |-> v]

\* the decimal str of a natural number
RECURSIVE NatStr(_)
NatStr(n) ==
    IF n < 10 THEN <<DigitChars[n + 1]>>
    ELSE NatStr(n \div 10) \o <<DigitChars[(n % 10) + 1]>>

\* None as a cell value of a table
PyNone == <<"None">>
ValueOrNone(e) == IF e.attr THEN e.value ELSE PyNone

(* --------------------- analyzer/parse_flowmon.py ------------------------ *)

PortRangeStart == 5000
UeCount == 5
KbpsDivisor == 1000
MsPerSecond == 1000

safe_int(elem) ==
    IF elem.present /\ elem.attr /\ elem.value /= <<>>
    THEN PyInt(elem.value) ELSE Ok(Zero)

safe_float(elem) ==
    IF elem.present /\ elem.attr /\ elem.value /= <<>>
    THEN PyFloat(elem.value) ELSE Ok(Zero)

\* int(elem.get('value')) of a port element: int(None) raises TypeError
port_int(elem) == IF elem.attr THEN PyInt(elem.value) ELSE Raise("TypeError")

\* a plausible slip: the guard on the duration dropped
throughput_unguarded(rx_bytes, duration) ==
    IF duration = Zero THEN NaN
    ELSE RDiv(RMul(rx_bytes, FromInt(8)), RMul(duration, FromInt(KbpsDivisor)))

throughput_kbps(rx_bytes, duration) ==
    IF RPos(duration)
    THEN RDiv(RMul(rx_bytes, FromInt(8)), RMul(duration, FromInt(KbpsDivisor)))
    ELSE Zero

\* a plausible slip: the guard on the packet count dropped
avg_delay_unguarded(delay_sum, rx_packets) ==
    IF rx_packets = Zero THEN NaN
    ELSE RMul(RDiv(delay_sum, rx_packets), FromInt(MsPerSecond))

avg_delay_ms(delay_sum, rx_packets) ==
    IF RPos(rx_packets)
    THEN RMul(RDiv(delay_sum, rx_packets), FromInt(MsPerSecond))
    ELSE Zero

\* the exception of the first call of calls that raised, "" when none did
FirstExc(calls) ==
    IF \A i \in 1..Len(calls) : calls[i].exc = "" THEN ""
    ELSE calls[CHOOSE i \in 1..Len(calls) :
                 calls[i].exc /= "" /\ \A j \in 1..(i - 1) : calls[j].exc = ""].exc

Skipped == [kind |-> "skip", exc |-> "", row |-> <<>>]

\* One iteration of the loop over the Flow elements: "skip" is a continue,
\* "raise" an exception that leaves parse_flowmon, "row" an appended record.
flow_record(flow) ==
    IF ~flow.flowId.present THEN Skipped
    ELSE IF ~flow.hasTx \/ ~flow.hasRx THEN Skipped
    ELSE IF \/ ~flow.TxAddress.present \/ ~flow.RxAddress.present
            \/ ~flow.TxPort.present \/ ~flow.RxPort.present
            \/ ~flow.Protocol.present
    THEN Skipped
    ELSE IF port_int(flow.TxPort).exc /= "" \/ port_int(flow.RxPort).exc /= ""
    THEN Skipped
    ELSE Bind([source_port |-> port_int(flow.TxPort),
               destination_port |-> port_int(flow.RxPort),
               tx_packets |-> safe_int(flow.TxPackets),
               rx_packets |-> safe_int(flow.RxPackets),
               tx_bytes |-> safe_int(flow.TxBytes),
               rx_bytes |-> safe_int(flow.RxBytes),
               tx_retransmissions |-> safe_int(flow.ReTx),
               delay_sum |-> safe_float(flow.DelaySum),
               jitter_sum |-> safe_float(flow.JitterSum),
               packet_loss |-> safe_float(flow.Loss),
               duration |-> safe_float(flow.Duration),
               flow_id |-> PyInt(flow.flowId.value)], LAMBDA c :
         Bind(FirstExc(<<c.tx_packets, c.rx_packets, c.tx_bytes, c.rx_bytes,
                         c.tx_retransmissions, c.delay_sum, c.jitter_sum,
                         c.packet_loss, c.duration, c.flow_id>>), LAMBDA exc :
           IF exc /= ""
           THEN [kind |-> "raise", exc |-> exc, row |-> <<>>]
           ELSE [kind |-> "row", exc |-> "", row |-> <<
                 [FlowID |-> c.flow_id.val[1],
                  Protocol |-> ValueOrNone(flow.Protocol),
                  SourceAddress |-> ValueOrNone(flow.TxAddress),
                  DestinationAddress |-> ValueOrNone(flow.RxAddress),
                  SourcePort |-> c.source_port.val[1],
                  DestinationPort |-> c.destination_port.val[1],
                  TxPackets |-> c.tx_packets.val[1],
                  RxPackets |-> c.rx_packets.val[1],
                  TxBytes |-> c.tx_bytes.val[1],
                  RxBytes |-> c.rx_bytes.val[1],
                  TxRetransmissions |-> c.tx_retransmissions.val[1],
                  Duration |-> c.duration.val,
                  Throughput |-> throughput_kbps(c.rx_bytes.val, c.duration.val),
                  AvgDelay |-> avg_delay_ms(c.delay_sum.val, c.rx_packets.val),
                  PacketLoss |-> c.packet_loss.val] >>]))

\* The loop over root.findall(".//Flow"): the records appended, in document
\* order, up to the first exception.
RECURSIVE parse_flows(_)
parse_flows(elems) ==
    IF elems = <<>> THEN [exc |-> "", rows |-> <<>>]
    ELSE Bind(flow_record(Head(elems)), LAMBDA r :
           IF r.kind = "raise" THEN [exc |-> r.exc, rows |-> <<>>]
           ELSE Bind(parse_flows(Tail(elems)), LAMBDA rest :
                  [exc |-> rest.exc,
                   rows |-> IF rest.exc = "" THEN r.row \o rest.rows ELSE <<>>]))

\* a plausible slip: an off-by-one upper end of the port range
in_port_range_inclusive(port) ==
    port >= PortRangeStart /\ port <= PortRangeStart + UeCount

in_port_range(port) ==
    port >= PortRangeStart /\ port < PortRangeStart + UeCount

ue_index(port) == port - PortRangeStart

with_ue(row) ==
    [FlowID |-> row.FlowID, Protocol |-> row.Protocol,
     SourceAddress |-> row.SourceAddress,
     DestinationAddress |-> row.DestinationAddress,
     SourcePort |-> row.SourcePort, DestinationPort |-> row.DestinationPort,
     TxPackets |-> row.TxPackets, RxPackets |-> row.RxPackets,
     TxBytes |-> row.TxBytes, RxBytes |-> row.RxBytes,
     TxRetransmissions |-> row.TxRetransmissions, Duration |-> row.Duration,
     Throughput |-> row.Throughput, AvgDelay |-> row.AvgDelay,
     PacketLoss |-> row.PacketLoss,
     UE_Index |-> ue_index(row.DestinationPort)]

MapWithUe(rows) == [i \in 1..Len(rows) |-> with_ue(rows[i])]

\* a plausible slip: the port filter left out
matched_flows_unfiltered(rows) == MapWithUe(rows)

\* df_flows after the UE columns are added and the port filter is applied
matched_flows(rows) ==
    LET keep(r) == in_port_range(r.DestinationPort)
    IN  SelectSeq(MapWithUe(rows), keep)

\* parse_flowmon(flowmon_file, output_csv): what it leaves behind.
\*   status "ParseError": the document is not well-formed, the function returns
\*   status "raised":     an exception left the function (exc names it)
\*   status "warning":    no flow matched, no table written
\*   status "saved":      the table csv was written
\* flows is the list the loop built, csv the table written.
parse_flowmon(doc) ==
    IF ~doc.wellformed
    THEN [status |-> "ParseError", exc |-> "", flows |-> <<>>, csv |-> <<>>]
    ELSE Bind(parse_flows(doc.flows), LAMBDA p :
           IF p.exc /= ""
           THEN [status |-> "raised", exc |-> p.exc, flows |-> <<>>, csv |-> <<>>]
           ELSE IF p.rows = <<>>
           THEN \* pd.DataFrame([]) has no column DestinationPort
                [status |-> "raised", exc |-> "KeyError", flows |-> <<>>, csv |-> <<>>]
           ELSE Bind(matched_flows(p.rows), LAMBDA df :
                  IF df = <<>>
                  THEN [status |-> "warning", exc |-> "", flows |-> p.rows, csv |-> <<>>]
                  ELSE [status |-> "saved", exc |-> "", flows |-> p.rows, csv |-> df]))

(* ------------------------- tables (pandas DataFrame) -------------------- *)

\* column names and the keywords the code searches them for
ColTime ==
    <<"T", "i", "m", "e", "(", "s", ")">>
ColAvgThroughput ==
    <<"A", "v", "g", "_", "T", "h", "r", "o", "u", "g", "h", "p", "u", "t", "(", "K", "b", "p", "s", ")">>
ColAvgLatency ==
    <<"A", "v", "g", "_", "L", "a", "t", "e", "n", "c", "y", "(", "m", "s", ")">>
ColAvgPacketLoss ==
    <<"A", "v", "g", "_", "P", "a", "c", "k", "e", "t", "L", "o", "s", "s", "(", "%", ")">>
ColUe0Throughput ==
    <<"U", "E", "0", "_", "T", "h", "r", "o", "u", "g", "h", "p", "u", "t", "(", "K", "b", "p", "s", ")">>
ColUe0PacketLoss ==
    <<"U", "E", "0", "_", "P", "a", "c", "k", "e", "t", "L", "o", "s", "s", "(", "%", ")">>
ColUe1PacketLoss ==
    <<"U", "E", "1", "_", "P", "a", "c", "k", "e", "t", "L", "o", "s", "s", "(", "%", ")">>
ColUe0Jitter ==
    <<"U", "E", "0", "_", "J", "i", "t", "t", "e", "r", "(", "m", "s", ")">>
KwThroughput ==
    <<"T", "h", "r", "o", "u", "g", "h", "p", "u", "t">>
KwPacketLoss ==
    <<"P", "a", "c", "k", "e", "t", "L", "o", "s", "s">>
KwJitter ==
    <<"J", "i", "t", "t", "e", "r">>
KwPacketLossPct ==
    <<"P", "a", "c", "k", "e", "t", "L", "o", "s", "s", "(", "%", ")">>

\* k in s, for two str
Contains(s, k) ==
    \E i \in 0..(Len(s) - Len(k)) : SubSeq(s, i + 1, i + Len(k)) = k

\* the sum of the first n elements of xs
rsum[xs \in Seq(Q), n \in Nat] == IF n = 0 THEN Zero ELSE radd[rsum[xs, n - 1], xs[n]]
RSum(xs) == rsum[xs, Len(xs)]

NotNaN(x) == ~IsNaN(x)

\* Series.mean(): the mean of the cells that are not nan, nan when there is none
Mean(xs) ==
    Bind(SelectSeq(xs, NotNaN), LAMBDA ys :
      IF ys = <<>> THEN NaN ELSE RDiv(RSum(ys), FromInt(Len(ys))))

\* A DataFrame read from a csv file: cols the header, rows the lines, each
\* row a tuple of floats aligned with cols.
HasCol(df, name) == \E i \in 1..Len(df.cols) : df.cols[i] = name
ColIndex(df, name) == CHOOSE i \in 1..Len(df.cols) : df.cols[i] = name
ColumnAt(df, i) == [r \in 1..Len(df.rows) |-> df.rows[r][i]]
Column(df, name) == ColumnAt(df, ColIndex(df, name))

\* [i for col i in df.columns if keyword in col], in column order
ColsLike(df, keyword) ==
    LET has(i) == Contains(df.cols[i], keyword)
    IN  SelectSeq([i \in 1..Len(df.cols) |-> i], has)

\* df[cols].mean(): the Series of the column means
ColumnMeans(df, idxs) == [k \in 1..Len(idxs) |-> Mean(ColumnAt(df, idxs[k]))]

\* the cells of the columns idxs, column after column
RECURSIVE CellsOf(_, _)
CellsOf(df, idxs) ==
    IF idxs = <<>> THEN <<>>
    ELSE ColumnAt(df, Head(idxs)) \o CellsOf(df, Tail(idxs))

\* a plausible slip: one mean over all the cells of the matched columns
MeanOfCells(df, keyword) == Mean(CellsOf(df, ColsLike(df, keyword)))

\* df[[col for col in df.columns if keyword in col]].mean().mean()
MeanOfMeans(df, keyword) == Mean(ColumnMeans(df, ColsLike(df, keyword)))

(* ------------------------------ analyzer.py ----------------------------- *)

\* a file of a run directory: kind is "missing", "malformed" or "ok"
\* load_csv_file: None for a missing file (FileNotFoundError is caught);
\* pd.read_csv raises its parser errors on a malformed file
load_csv_file(file) ==
    IF file.kind = "missing" THEN [kind |-> "None", exc |-> "", df |-> <<>>]
    ELSE IF file.kind = "malformed"
    THEN [kind |-> "raised", exc |-> "ParserError", df |-> <<>>]
    ELSE [kind |-> "df", exc |-> "", df |-> <<file.table>>]

\* flow.get(name, default) followed by int()
attr_int(a, default) == IF a.present THEN PyInt(a.value) ELSE Ok(FromInt(default))

\* flow.get(name, "0ms") followed by parse_time_with_units()
attr_time(a) ==
    IF a.present THEN parse_time_with_units(a.value)
    ELSE parse_time_with_units(<<"0", "m", "s">>)

\* one iteration of the loop over root.findall("FlowStats/Flow")
flow_stat(flow) ==
    Bind([flow_id |-> attr_int(flow.flowId, -1),
          tx_packets |-> attr_int(flow.txPackets, 0),
          rx_packets |-> attr_int(flow.rxPackets, 0),
          delay_sum |-> attr_time(flow.delaySum),
          jitter_sum |-> attr_time(flow.jitterSum)], LAMBDA c :
      Bind(FirstExc(<<c.flow_id, c.tx_packets, c.rx_packets, c.delay_sum,
                      c.jitter_sum>>), LAMBDA exc :
        IF exc /= ""
        THEN [exc |-> exc, row |-> <<>>]
        ELSE [exc |-> "", row |-> <<
              [FlowId |-> c.flow_id.val[1],
               TxPackets |-> c.tx_packets.val[1],
               RxPackets |-> c.rx_packets.val[1],
               LostPackets |-> c.tx_packets.val[1] - c.rx_packets.val[1],
               DelaySum |-> c.delay_sum.val,
               JitterSum |-> c.jitter_sum.val] >>]))

RECURSIVE flow_stats(_)
flow_stats(elems) ==
    IF elems = <<>> THEN [exc |-> "", rows |-> <<>>]
    ELSE Bind(flow_stat(Head(elems)), LAMBDA r :
           IF r.exc /= "" THEN [exc |-> r.exc, rows |-> <<>>]
           ELSE Bind(flow_stats(Tail(elems)), LAMBDA rest :
                  [exc |-> rest.exc,
                   rows |-> IF rest.exc = "" THEN r.row \o rest.rows ELSE <<>>]))

\* the loop of parse_flowmon_xml and its return
flow_stats_frame(file) ==
    Bind(flow_stats(file.flows), LAMBDA p :
      IF p.exc /= "" THEN [kind |-> "raised", exc |-> p.exc, rows |-> <<>>]
      ELSE [kind |-> "df", exc |-> "", rows |-> p.rows])

\* parse_flowmon_xml: None for a missing or not well-formed file (both
\* exceptions are caught); any other exception leaves the function
parse_flowmon_xml(file) ==
    IF file.kind \in {"missing", "malformed"}
    THEN [kind |-> "None", exc |-> "", rows |-> <<>>]
    ELSE flow_stats_frame(file)

\* generate_plots: raises KeyError for the two columns it reads by name
generate_plots(df) ==
    IF ~HasCol(df, ColTime) \/ ~HasCol(df, ColAvgLatency) THEN "KeyError" ELSE ""

RECURSIVE IntSum(_)
IntSum(xs) == IF xs = <<>> THEN 0 ELSE Head(xs) + IntSum(Tail(xs))

TxOf(rows) == [i \in 1..Len(rows) |-> rows[i].TxPackets]
RxOf(rows) == [i \in 1..Len(rows) |-> rows[i].RxPackets]
DelayOf(rows) == [i \in 1..Len(rows) |-> rows[i].DelaySum]
JitterOf(rows) == [i \in 1..Len(rows) |-> rows[i].JitterSum]

NoCsvMetrics ==
    [present |-> FALSE, avg_throughput |-> Zero, avg_latency |-> Zero,
     avg_packet_loss |-> Zero, avg_jitter |-> Zero]

\* the "Key Metrics" block of the summary
csv_metrics(df) ==
    [present |-> TRUE,
     avg_throughput |-> MeanOfMeans(df, KwThroughput),
     avg_latency |-> Mean(Column(df, ColAvgLatency)),
     avg_packet_loss |-> MeanOfMeans(df, KwPacketLoss),
     avg_jitter |-> MeanOfMeans(df, KwJitter)]

NoFlowMetrics ==
    [present |-> FALSE, total_tx |-> 0, total_rx |-> 0, packet_loss_rate |-> Zero,
     avg_delay |-> Zero, avg_jitter |-> Zero]

IntsToRats(xs) == [i \in 1..Len(xs) |-> FromInt(xs[i])]

\* x.mean() / RxPackets.mean() if RxPackets.mean() > 0 else 0
ratio_of_means(sum_mean, rx_mean) ==
    IF RPos(rx_mean) THEN RDiv(sum_mean, rx_mean) ELSE Zero

\* a plausible slip: the loss rate taken from the lost share of the received
packet_loss_rate_of_rx(total_tx, total_rx) ==
    IF total_rx > 0
    THEN RMul(RSub(FromInt(1), Rat(total_tx, total_rx)), FromInt(100))
    ELSE Zero

\* (1 - (total_rx / total_tx)) * 100 if total_tx > 0 else 0
packet_loss_rate(total_tx, total_rx) ==
    IF total_tx > 0
    THEN RMul(RSub(FromInt(1), Rat(total_rx, total_tx)), FromInt(100))
    ELSE Zero

\* the "Flow Monitor Metrics" block of the summary, for a DataFrame with rows
flow_metrics(rows) ==
    Bind([total_tx |-> IntSum(TxOf(rows)), total_rx |-> IntSum(RxOf(rows)),
          rx_mean |-> Mean(IntsToRats(RxOf(rows)))], LAMBDA t :
      [present |-> TRUE,
       total_tx |-> t.total_tx,
       total_rx |-> t.total_rx,
       packet_loss_rate |-> packet_loss_rate(t.total_tx, t.total_rx),
       avg_delay |-> ratio_of_means(Mean(DelayOf(rows)), t.rx_mean),
       avg_jitter |-> ratio_of_means(Mean(JitterOf(rows)), t.rx_mean)])

\* the blocks of the summary that the arguments call for
summary_blocks(csv, flowmon) ==
    [exc |-> "",
     key |-> IF csv.kind = "df" THEN csv_metrics(csv.df[1]) ELSE NoCsvMetrics,
     flow |-> IF flowmon.kind = "df" THEN flow_metrics(flowmon.rows) ELSE NoFlowMetrics]

\* generate_summary_documentation(csv_df, flowmon_df, output_folder)
generate_summary_documentation(csv, flowmon) ==
    IF csv.kind = "df" /\ ~HasCol(csv.df[1], ColAvgLatency)
    THEN [exc |-> "KeyError", key |-> NoCsvMetrics, flow |-> NoFlowMetrics]
    ELSE IF flowmon.kind = "df" /\ flowmon.rows = <<>>
    THEN \* pd.DataFrame([]) has no column TxPackets
         [exc |-> "KeyError", key |-> NoCsvMetrics, flow |-> NoFlowMetrics]
    ELSE summary_blocks(csv, flowmon)

NoSummary == [exc |-> "", key |-> NoCsvMetrics, flow |-> NoFlowMetrics]

\* process_run_directory after the two files are read
run_outputs_of(csv_df, flowmon_df) ==
    IF csv_df.kind = "raised"
    THEN [exc |-> csv_df.exc, plots |-> FALSE, summary |-> NoSummary]
    ELSE IF flowmon_df.kind = "raised"
    THEN [exc |-> flowmon_df.exc, plots |-> FALSE, summary |-> NoSummary]
    ELSE IF csv_df.kind = "df" /\ generate_plots(csv_df.df[1]) /= ""
    THEN [exc |-> "KeyError", plots |-> FALSE, summary |-> NoSummary]
    ELSE Bind(generate_summary_documentation(csv_df, flowmon_df), LAMBDA doc :
           [exc |-> doc.exc, plots |-> csv_df.kind = "df", summary |-> doc])

\* process_run_directory(run_dir, output_folder): exc names the exception
\* that leaves it, plots tells whether generate_plots completed
process_run_directory(run) ==
    Bind(load_csv_file(run.csv), LAMBDA csv_df :
      Bind(parse_flowmon_xml(run.xml), LAMBDA flowmon_df :
        run_outputs_of(csv_df, flowmon_df)))

(* ----------------------------- graph_merger.py -------------------------- *)

RequiredColumns == <<ColTime, ColAvgThroughput, ColAvgLatency>>
KeptColumns == <<ColTime, ColAvgThroughput, ColAvgLatency, ColAvgPacketLoss>>

\* df[packet_loss_cols].mean(axis=1): the mean of each row over the columns
RowMeans(df, idxs) ==
    [r \in 1..Len(df.rows) |-> Mean([k \in 1..Len(idxs) |-> df.rows[r][idxs[k]]])]

\* df[name] = values: the column is replaced when it exists, appended otherwise
SetColumn(df, name, values) ==
    IF HasCol(df, name)
    THEN [cols |-> df.cols,
          rows |-> [r \in 1..Len(df.rows) |->
                      [df.rows[r] EXCEPT ![ColIndex(df, name)] = values[r]]]]
    ELSE [cols |-> Append(df.cols, name),
          rows |-> [r \in 1..Len(df.rows) |-> Append(df.rows[r], values[r])]]

\* df[[names]]
SelectColumns(df, names) ==
    [cols |-> names,
     rows |-> [r \in 1..Len(df.rows) |->
                 [k \in 1..Len(names) |-> df.rows[r][ColIndex(df, names[k])]]]]

\* the loss column the loader computes before it keeps the four columns
with_avg_packet_loss(df) ==
    LET packet_loss_cols == ColsLike(df, KwPacketLossPct)
    IN  IF packet_loss_cols /= <<>>
        THEN SetColumn(df, ColAvgPacketLoss, RowMeans(df, packet_loss_cols))
        ELSE SetColumn(df, ColAvgPacketLoss, [r \in 1..Len(df.rows) |-> Zero])

\* data[key] = value of a dict: a known key keeps its place
DictSet(d, key, value) ==
    IF \E i \in 1..Len(d) : d[i].run = key
    THEN [i \in 1..Len(d) |-> IF d[i].run = key THEN [run |-> key, df |-> value] ELSE d[i]]
    ELSE Append(d, [run |-> key, df |-> value])

LogEntry(level, msg, run_number) == [level |-> level, msg |-> msg, run |-> run_number]

HasRequired(df) == \A i \in 1..Len(RequiredColumns) : HasCol(df, RequiredColumns[i])

\* the entries logged for a run that is loaded
LoadedLog(df, run_number) ==
    << IF ColsLike(df, KwPacketLossPct) /= <<>>
       THEN LogEntry("info", "computed loss", run_number)
       ELSE LogEntry("warning", "no loss columns", run_number),
       LogEntry("info", "loaded", run_number) >>

\* a plausible slip: a run that cannot be loaded ends the loading
load_run_break(run_number, file, d) ==
    IF file.kind = "ok" /\ HasRequired(file.table)
    THEN [data |-> DictSet(d, run_number,
                     SelectColumns(with_avg_packet_loss(file.table), KeptColumns)),
          logged |-> LoadedLog(file.table, run_number), stop |-> FALSE]
    ELSE [data |-> d, logged |-> <<LogEntry("error", "error loading", run_number)>>,
          stop |-> TRUE]

\* one iteration of the loop of load_simulation_data over run_numbers
load_run(run_number, file, d) ==
    IF file.kind = "missing"
    THEN [data |-> d, logged |-> <<LogEntry("warning", "not found", run_number)>>,
          stop |-> FALSE]
    ELSE IF file.kind = "malformed"
    THEN \* pd.read_csv raises; except Exception logs the error
         [data |-> d, logged |-> <<LogEntry("error", "error loading", run_number)>>,
          stop |-> FALSE]
    ELSE IF ~HasRequired(file.table)
    THEN [data |-> d, logged |-> <<LogEntry("warning", "missing columns", run_number)>>,
          stop |-> FALSE]
    ELSE [data |-> DictSet(d, run_number,
                     SelectColumns(with_avg_packet_loss(file.table), KeptColumns)),
          logged |-> LoadedLog(file.table, run_number), stop |-> FALSE]

(* ---------------------------- the file system --------------------------- *)

\* A node of the file system is a file with its data or a directory with its
\* items, a function from the names in it to their nodes.
NoItems == [n \in {} |-> 0]
File(data) == [kind |-> "file", data |-> <<data>>, items |-> NoItems]
Dir(items) == [kind |-> "dir", data |-> <<>>, items |-> items]
EmptyDir == Dir(NoItems)

\* os.path.exists, os.path.isfile of the entry name of the directory d
Exists(d, name) == name \in DOMAIN d.items
IsFile(d, name) == Exists(d, name) /\ d.items[name].kind = "file"

\* d with the entry name set to node
PutItem(d, name, node) ==
    [d EXCEPT !.items = [n \in (DOMAIN d.items) \cup {name} |->
                            IF n = name THEN node ELSE d.items[n]]]

\* shutil.rmtree(os.path.join(d, name))
rmtree(d, name) ==
    [d EXCEPT !.items = [n \in (DOMAIN d.items) \ {name} |-> d.items[n]]]

\* os.makedirs(os.path.join(d, name), exist_ok=True)
makedirs(d, name) == IF Exists(d, name) THEN d ELSE PutItem(d, name, EmptyDir)

(* --------------------------- analyzer/utils.py -------------------------- *)

\* a plausible slip: the existing directory is kept, not removed
setup_version_directory_keep(base_dir, version) ==
    Bind(makedirs(base_dir, version), LAMBDA made :
      PutItem(made, version,
              makedirs(makedirs(made.items[version], "plots"), "reports")))

\* setup_version_directory(base_dir, version): base_dir after the call
setup_version_directory(base_dir, version) ==
    Bind(makedirs(IF Exists(base_dir, version) THEN rmtree(base_dir, version)
                  ELSE base_dir, version), LAMBDA made :
      PutItem(made, version,
              makedirs(makedirs(made.items[version], "plots"), "reports")))

\* shutil.copy of one file of the input directory, when it is a file there
copy_file(input_file, name, version_dir) ==
    IF input_file.kind /= "missing"
    THEN PutItem(version_dir, name, File(input_file))
    ELSE version_dir

\* copy_input_files(input_dir, version_dir): version_dir after the call
copy_input_files(input_dir, version_dir) ==
    copy_file(input_dir.metrics, "simulation_metrics.csv",
              copy_file(input_dir.flowmon, "flowmon.xml", version_dir))

\* pd.read_csv of a file node
read_csv(node) ==
    IF node.data[1].kind = "ok"
    THEN [exc |-> "", df |-> <<node.data[1].table>>]
    ELSE [exc |-> "ParserError", df |-> <<>>]

NoReport == [avg_throughput |-> Zero, avg_latency |-> Zero, packet_loss |-> Zero]

\* generate_report: the figures of the report written, or the exception
generate_report(df) ==
    IF ~HasCol(df, ColAvgLatency)
    THEN [exc |-> "KeyError", report |-> NoReport]
    ELSE [exc |-> "",
          report |-> [avg_throughput |-> MeanOfMeans(df, KwThroughput),
                      avg_latency |-> Mean(Column(df, ColAvgLatency)),
                      packet_loss |-> MeanOfMeans(df, KwPacketLoss)]]

(* ------------------------ analyzer/plot_metrics.py ---------------------- *)

ColFlowID ==
    <<"F", "l", "o", "w", "I", "D">>
ColProtocol ==
    <<"P", "r", "o", "t", "o", "c", "o", "l">>
ColSourceAddress ==
    <<"S", "o", "u", "r", "c", "e", "A", "d", "d", "r", "e", "s", "s">>
ColDestinationAddress ==
    <<"D", "e", "s", "t", "i", "n", "a", "t", "i", "o", "n", "A", "d", "d", "r", "e", "s", "s">>
ColSourcePort ==
    <<"S", "o", "u", "r", "c", "e", "P", "o", "r", "t">>
ColDestinationPort ==
    <<"D", "e", "s", "t", "i", "n", "a", "t", "i", "o", "n", "P", "o", "r", "t">>
ColTxPackets ==
    <<"T", "x", "P", "a", "c", "k", "e", "t", "s">>
ColRxPackets ==
    <<"R", "x", "P", "a", "c", "k", "e", "t", "s">>
ColTxBytes ==
    <<"T", "x", "B", "y", "t", "e", "s">>
ColRxBytes ==
    <<"R", "x", "B", "y", "t", "e", "s">>
ColTxRetransmissions ==
    <<"T", "x", "R", "e", "t", "r", "a", "n", "s", "m", "i", "s", "s", "i", "o", "n", "s">>
ColDuration ==
    <<"D", "u", "r", "a", "t", "i", "o", "n", "(", "s", ")">>
ColThroughputKbps ==
    <<"T", "h", "r", "o", "u", "g", "h", "p", "u", "t", "(", "K", "b", "p", "s", ")">>
ColAvgDelay ==
    <<"A", "v", "g", "D", "e", "l", "a", "y", "(", "m", "s", ")">>
ColUeIndex ==
    <<"U", "E", "_", "I", "n", "d", "e", "x">>
ColUe ==
    <<"U", "E">>

\* the columns of the table parse_flowmon writes, in the order of the dict
\* keys and of the two columns added
FlowTableColumns ==
    <<ColFlowID, ColProtocol, ColSourceAddress, ColDestinationAddress, ColSourcePort,
      ColDestinationPort, ColTxPackets, ColRxPackets, ColTxBytes, ColRxBytes,
      ColTxRetransmissions, ColDuration, ColThroughputKbps, ColAvgDelay,
      KwPacketLossPct, ColUeIndex, ColUe>>

\* a row of flowmon_parsed.csv as read_csv returns it
flow_table_row(r) ==
    <<FromInt(r.FlowID), r.Protocol, r.SourceAddress, r.DestinationAddress,
      FromInt(r.SourcePort), FromInt(r.DestinationPort), FromInt(r.TxPackets),
      FromInt(r.RxPackets), FromInt(r.TxBytes), FromInt(r.RxBytes),
      FromInt(r.TxRetransmissions), r.Duration, r.Throughput, r.AvgDelay,
      r.PacketLoss, FromInt(r.UE_Index), <<"U", "E", "_">> \o NatStr(r.UE_Index)>>

\* flowmon_parsed.csv read back as a DataFrame
flow_table_frame(rows) ==
    [cols |-> FlowTableColumns,
     rows |-> [i \in 1..Len(rows) |-> flow_table_row(rows[i])]]

PngThroughput == "average-throughput-per-ue.png"
PngLatency == "average-latency.png"
PngPacketLoss == "average-packet-loss.png"

\* plot_all_metrics after read_csv: the images saved, in order, and the
\* exception that ended it ("" when it returned).  An empty Series of
\* throughput means cannot be drawn as bars.
plot_all_metrics(df) ==
    IF ColsLike(df, ColThroughputKbps) = <<>>
    THEN [exc |-> "TypeError", saved |-> {}]
    ELSE IF ~HasCol(df, ColAvgDelay)
    THEN [exc |-> "KeyError", saved |-> {PngThroughput}]
    ELSE [exc |-> "", saved |-> {PngThroughput, PngLatency, PngPacketLoss}]

\* d with an empty file for every name of names
RECURSIVE SaveAll(_, _)
SaveAll(d, names) ==
    IF names = {} THEN d
    ELSE Bind(CHOOSE n \in names : TRUE, LAMBDA n :
           SaveAll(PutItem(d, n, File([kind |-> "png"])), names \ {n}))

(* -------------------------------- inputs -------------------------------- *)

MaxNumLen == 3
MaxFlows == 2
MaxXmlFlows == 2
MaxRuns == 2
NumRunIds == 3
MaxRequested == 3

\* all tuples over the set S of length 0..n
RECURSIVE SeqsUpTo(_, _)
SeqsUpTo(S, n) ==
    IF n = 0 THEN {<<>>}
    ELSE LET shorter == SeqsUpTo(S, n - 1)
         IN  shorter \cup {Append(t, x) : t \in shorter, x \in S}

\* time tokens: a numeric part (well-formed or not) followed by a suffix
NumericParts == SeqsUpTo({"0", "1", ".", "-"}, MaxNumLen)
UnitSuffixes == {<<>>, <<"n", "s">>, <<"m", "s">>, <<"s">>, <<"m">>, <<"u", "s">>}
Str1000ns == <<"1", "0", "0", "0", "n", "s">>
StrMilliMs == <<"0", ".", "0", "0", "1", "m", "s">>
UnitTokens ==
    {v \o sfx : v \in NumericParts, sfx \in UnitSuffixes}
    \cup {Str1000ns, StrMilliMs, <<"5", "0", "m", "s">>,
          <<"1", "0", "0", "0", "0", "0", "0", "n", "s">>}

StrX == <<"x">>
Str50ms == <<"5", "0", "m", "s">>
Str1e6ns == <<"1", "0", "0", "0", "0", "0", "0", "n", "s">>
StrHalf == <<"0", ".", "5">>
StrMinus1 == <<"-", "1">>
StrDelay == <<"0", ".", "0", "5">>
StrAddrA == <<"7", ".", "0", ".", "0", ".", "2">>
StrAddrB == <<"1", ".", "0", ".", "0", ".", "2">>

\* a well-formed Flow element of the trace parse_flowmon reads
BaseFlow ==
    [flowId |-> Elem(NatStr(1)), hasTx |-> TRUE, hasRx |-> TRUE,
     TxAddress |-> Elem(StrAddrB), RxAddress |-> Elem(StrAddrA),
     TxPort |-> Elem(NatStr(49153)), RxPort |-> Elem(NatStr(5000)),
     TxPackets |-> Elem(NatStr(100)), RxPackets |-> Elem(NatStr(100)),
     TxBytes |-> Elem(NatStr(1000)), RxBytes |-> Elem(NatStr(1000)),
     ReTx |-> Absent, DelaySum |-> Elem(StrDelay), JitterSum |-> Absent,
     Loss |-> Elem(NatStr(0)), Protocol |-> Elem(NatStr(6)),
     Duration |-> Elem(NatStr(2))]

PortInputs == {4999, 5001, 5002, 5003, 5004, 5005, 9999}

FlowInputs ==
    {BaseFlow}
    \cup {[BaseFlow EXCEPT !.RxPort = Elem(NatStr(p)), !.flowId = Elem(NatStr(2))] :
            p \in PortInputs}
    \cup {[BaseFlow EXCEPT !.RxPort = e] : e \in {Absent, NoValue, Elem(StrX)}}
    \cup {[BaseFlow EXCEPT !.flowId = e] : e \in {Absent, Elem(StrX)}}
    \cup {[BaseFlow EXCEPT !.hasTx = FALSE], [BaseFlow EXCEPT !.hasRx = FALSE]}
    \cup {[BaseFlow EXCEPT !.TxAddress = Absent], [BaseFlow EXCEPT !.RxAddress = NoValue],
          [BaseFlow EXCEPT !.Protocol = Absent], [BaseFlow EXCEPT !.TxPort = Absent]}
    \cup {[BaseFlow EXCEPT !.TxPackets = e] : e \in {Absent, Elem(StrX)}}
    \cup {[BaseFlow EXCEPT !.RxPackets = e] : e \in {Absent, Elem(NatStr(0)), Elem(StrX)}}
    \cup {[BaseFlow EXCEPT !.RxBytes = e] : e \in {Absent, Elem(StrX)}}
    \cup {[BaseFlow EXCEPT !.DelaySum = e] :
            e \in {Absent, Elem(Str50ms), Elem(Str1e6ns), Elem(StrX)}}
    \cup {[BaseFlow EXCEPT !.Duration = e] :
            e \in {Absent, Elem(NatStr(0)), Elem(StrMinus1), Elem(StrHalf), Elem(StrX)}}
    \cup {[BaseFlow EXCEPT !.Loss = e] : e \in {Absent, Elem(NatStr(100)), Elem(StrX)}}
    \cup {[BaseFlow EXCEPT !.TxPackets = Elem(NatStr(0)), !.RxPackets = Elem(NatStr(0)),
                           !.Loss = Absent, !.flowId = Elem(NatStr(3))]}

FlowmonDocs ==
    {[wellformed |-> FALSE, flows |-> <<>>]}
    \cup {[wellformed |-> TRUE, flows |-> fs] : fs \in SeqsUpTo(FlowInputs, MaxFlows)}

\* a Flow element of the trace parse_flowmon_xml reads (attributes)
BaseStat ==
    [flowId |-> Elem(NatStr(1)), txPackets |-> Elem(NatStr(100)),
     rxPackets |-> Elem(NatStr(100)), delaySum |-> Elem(Str50ms),
     jitterSum |-> Absent]

StatInputs ==
    {BaseStat,
     [BaseStat EXCEPT !.rxPackets = Elem(NatStr(0))],
     [BaseStat EXCEPT !.txPackets = Elem(NatStr(0)), !.rxPackets = Elem(NatStr(0))],
     [BaseStat EXCEPT !.txPackets = Elem(NatStr(50)), !.rxPackets = Elem(NatStr(50)),
                      !.delaySum = Elem(Str1e6ns), !.jitterSum = Elem(NatStr(1))],
     [BaseStat EXCEPT !.flowId = Absent, !.txPackets = Absent, !.rxPackets = Absent,
                      !.delaySum = Absent],
     [BaseStat EXCEPT !.txPackets = Elem(StrX)],
     [BaseStat EXCEPT !.delaySum = Elem(StrX)],
     [BaseStat EXCEPT !.flowId = Elem(StrX)]}

FullTable ==
    [cols |-> <<ColTime, ColUe0Throughput, ColAvgThroughput, ColAvgLatency,
                ColUe0PacketLoss, ColUe1PacketLoss, ColUe0Jitter>>,
     rows |-> << <<Rat(1, 1), Rat(100, 1), Rat(100, 1), Rat(20, 1), Rat(0, 1), Rat(10, 1),
                   Rat(1, 2)>>,
                 <<Rat(2, 1), Rat(300, 1), Rat(300, 1), Rat(30, 1), Rat(4, 1), NaN,
                   Rat(3, 2)>> >>]

NoLatencyTable ==
    [cols |-> <<ColTime, ColAvgThroughput, ColUe0PacketLoss>>,
     rows |-> << <<Rat(1, 1), Rat(100, 1), Rat(5, 1)>>,
                 <<Rat(2, 1), Rat(200, 1), Rat(7, 1)>> >>]

NoTimeTable ==
    [cols |-> <<ColAvgThroughput, ColAvgLatency>>,
     rows |-> << <<Rat(100, 1), Rat(20, 1)>> >>]

NoLossTable ==
    [cols |-> <<ColTime, ColAvgThroughput, ColAvgLatency>>,
     rows |-> << <<Rat(1, 1), Rat(100, 1), Rat(20, 1)>>,
                 <<Rat(2, 1), Rat(200, 1), Rat(40, 1)>> >>]

AvgLossTable ==
    [cols |-> <<ColTime, ColAvgThroughput, ColAvgLatency, ColAvgPacketLoss,
                ColUe0PacketLoss>>,
     rows |-> << <<Rat(1, 1), Rat(100, 1), Rat(20, 1), Rat(50, 1), Rat(10, 1)>>,
                 <<Rat(2, 1), Rat(200, 1), Rat(40, 1), Rat(50, 1), Rat(30, 1)>> >>]

EmptyTable == [cols |-> <<>>, rows |-> <<>>]
MissingFile == [kind |-> "missing", table |-> EmptyTable]
MalformedFile == [kind |-> "malformed", table |-> EmptyTable]
CsvFile(t) == [kind |-> "ok", table |-> t]

MissingXml == [kind |-> "missing", flows |-> <<>>]
MalformedXml == [kind |-> "malformed", flows |-> <<>>]
XmlFile(fs) == [kind |-> "ok", flows |-> fs]

\* run directories with every trace of up to MaxXmlFlows flows
RichRuns ==
    {[isdir |-> TRUE, csv |-> c, xml |-> XmlFile(fs)] :
        c \in {MissingFile, CsvFile(FullTable)},
        fs \in SeqsUpTo(StatInputs, MaxXmlFlows)}

\* the entries of the input directory a batch is made of
BatchRuns ==
    {[isdir |-> TRUE, csv |-> c, xml |-> x] :
        c \in {MissingFile, MalformedFile, CsvFile(FullTable), CsvFile(NoLatencyTable),
               CsvFile(NoTimeTable)},
        x \in {MissingXml, MalformedXml, XmlFile(<<BaseStat>>), XmlFile(<<>>),
               XmlFile(<<[BaseStat EXCEPT !.txPackets = Elem(StrX)]>>)}}
    \cup {[isdir |-> FALSE, csv |-> MissingFile, xml |-> MissingXml]}

BatchInputs == {<<r>> : r \in RichRuns} \cup SeqsUpTo(BatchRuns, MaxRuns)

RunIds == 1..NumRunIds
\* the simulation_metrics.csv of the runs: files that are skipped beside one
\* that is loaded, or files that are all loaded
SkippedFiles == {MissingFile, MalformedFile, CsvFile(NoLatencyTable)}
LoadedFiles == {CsvFile(FullTable), CsvFile(NoLossTable), CsvFile(AvgLossTable)}
MergeFiles == SkippedFiles \cup LoadedFiles
MergeInputs ==
    [RunIds -> SkippedFiles \cup {CsvFile(FullTable)}] \cup [RunIds -> LoadedFiles]

ColAvgDelayTable ==
    [cols |-> <<ColTime, ColUe0Throughput, ColAvgThroughput, ColAvgLatency, ColAvgDelay,
                ColUe0PacketLoss, ColUe1PacketLoss>>,
     rows |-> << <<Rat(1, 1), Rat(100, 1), Rat(300, 1), Rat(20, 1), Rat(20, 1), Rat(0, 1),
                   Rat(10, 1)>>,
                 <<Rat(2, 1), NaN, Rat(500, 1), Rat(30, 1), Rat(30, 1), Rat(4, 1),
                   NaN>> >>]

\* the inputs of the command line pipelines
MaxCliFlows == 2
CliFlows ==
    {BaseFlow,
     [BaseFlow EXCEPT !.RxPort = Elem(NatStr(9999)), !.flowId = Elem(NatStr(2))],
     [BaseFlow EXCEPT !.RxPort = Elem(NatStr(5004)), !.RxPackets = Elem(NatStr(0)),
                      !.Loss = Elem(NatStr(100)), !.flowId = Elem(NatStr(3))],
     [BaseFlow EXCEPT !.Protocol = Absent],
     [BaseFlow EXCEPT !.TxPackets = Elem(StrX)]}
MissingFlowmon == [kind |-> "missing", doc |-> [wellformed |-> FALSE, flows |-> <<>>]]
FlowmonFile(doc) == [kind |-> "ok", doc |-> doc]
CliFlowmonFiles ==
    {MissingFlowmon, FlowmonFile([wellformed |-> FALSE, flows |-> <<>>])}
    \cup {FlowmonFile([wellformed |-> TRUE, flows |-> fs]) :
            fs \in SeqsUpTo(CliFlows, MaxCliFlows)}
CliCsvFiles ==
    {MissingFile, MalformedFile, CsvFile(FullTable), CsvFile(NoLatencyTable),
     CsvFile(ColAvgDelayTable)}
CliInputs == [flowmon : CliFlowmonFiles, metrics : CliCsvFiles]
CliMains == {"src/main.py", "src/analyzer/main.py"}

\* the version directories a call of setup_version_directory can find
NumVersions == 2
MaxSetupCalls == 2
VersionNames == <<"v1", "v2", "v3", "v4">>
Versions == {VersionNames[i] : i \in 1..NumVersions}
OldFile == File([kind |-> "old"])
OldPlots == {EmptyDir, PutItem(EmptyDir, PngLatency, OldFile)}
OldReports == {PutItem(EmptyDir, "flowmon_parsed.csv", OldFile)}
WithOld(d, name, nodes) == {d} \cup {PutItem(d, name, n) : n \in nodes}
OldVersionDirs ==
    UNION {UNION {WithOld(r, "flowmon.xml", {OldFile}) : r \in WithOld(q, "reports", OldReports)} :
             q \in WithOld(EmptyDir, "plots", OldPlots)}
\* the versions directory: each version is absent or one of the directories
NoDir == [kind |-> "absent", data |-> <<>>, items |-> NoItems]
VersionsDirs ==
    {Dir([v \in {w \in Versions : f[w].kind = "dir"} |-> f[v]]) :
        f \in [Versions -> OldVersionDirs \cup {NoDir}]}
\* what the command line pipeline finds under versions/
CliVersionsDirs ==
    {EmptyDir,
     PutItem(EmptyDir, "v1",
       PutItem(PutItem(PutItem(EmptyDir, "flowmon.xml",
                                File(FlowmonFile([wellformed |-> TRUE, flows |-> <<BaseFlow>>]))),
                       "simulation_metrics.csv", File(CsvFile(ColAvgDelayTable))),
               "reports", PutItem(EmptyDir, "flowmon_parsed.csv", OldFile)))}

(* ------------------------------- the state ------------------------------ *)

VARIABLES
    unit_token,     \* the token given to parse_time_with_units
    unit_result,    \* what the call returned or raised
    flowmon_doc,    \* the flowmon.xml given to parse_flowmon
    parse_result,   \* what parse_flowmon left behind
    input_runs,     \* analyzer.py: sorted(os.listdir(INPUT_DIR))
    run_pos,        \* analyzer.py main: the next entry of the loop
    run_outputs,    \* analyzer.py main: what each processed run produced
    main_status,    \* analyzer.py main: "running", "complete" or the exception
    run_numbers,    \* graph_merger: the run numbers requested
    input_files,    \* graph_merger: the simulation_metrics.csv of each run
    load_pos,       \* graph_merger: the next run number of the loop
    data,           \* graph_merger: the dict being filled
    log,            \* graph_merger: the records logged
    load_status,    \* graph_merger: "loading", "returned", "compared" or "no data"
    comparison,     \* graph_merger compare_runs: the series drawn for each metric
    versions_dir,   \* the directory versions/ of the working directory
    versions_initial, \* versions/ as it was found
    setup_version,  \* the version of the last call of setup_version_directory
    setup_count,    \* the number of calls of setup_version_directory made
    cli_main,       \* the command line pipeline run: src/main.py or src/analyzer/main.py
    cli_version,    \* --version
    cli_input,      \* the two files of --input_dir
    cli_pc,         \* where main is
    cli_exit,       \* the exit code of the process, -1 while it runs
    cli_exc         \* the exception that ended the process, "" when none did

vars == <<unit_token, unit_result, flowmon_doc, parse_result, input_runs, run_pos,
          run_outputs, main_status, run_numbers, input_files, load_pos, data, log,
          load_status, comparison, versions_dir, versions_initial, setup_version,
          setup_count, cli_main, cli_version, cli_input, cli_pc, cli_exit, cli_exc>>

unit_vars == <<unit_token, unit_result>>
parse_vars == <<flowmon_doc, parse_result>>
batch_vars == <<input_runs, run_pos, run_outputs, main_status>>
merge_vars == <<run_numbers, input_files, load_pos, data, log, load_status, comparison>>
setup_vars == <<versions_dir, versions_initial, setup_version, setup_count>>
cli_vars == <<cli_main, cli_version, cli_input, cli_pc, cli_exit, cli_exc>>

NotCalled == [exc |-> "not called", val |-> Zero]
NotParsed == [status |-> "not called", exc |-> "", flows |-> <<>>, csv |-> <<>>]

\* the values of the parts of the state a specification does not use
UnitIdle == unit_token = <<>> /\ unit_result = [exc |-> "idle", val |-> Zero]
ParseIdle ==
    /\ flowmon_doc = [wellformed |-> FALSE, flows |-> <<>>]
    /\ parse_result = [status |-> "idle", exc |-> "", flows |-> <<>>, csv |-> <<>>]
BatchIdle ==
    input_runs = <<>> /\ run_pos = 1 /\ run_outputs = <<>> /\ main_status = "idle"
MergeIdle ==
    /\ run_numbers = <<>> /\ input_files = [r \in RunIds |-> MissingFile]
    /\ load_pos = 1 /\ data = <<>> /\ log = <<>> /\ load_status = "idle"
    /\ comparison = <<>>
SetupIdle ==
    /\ versions_dir = EmptyDir /\ versions_initial = EmptyDir
    /\ setup_version = "" /\ setup_count = -1
CliIdle ==
    /\ cli_main = "" /\ cli_version = ""
    /\ cli_input = [flowmon |-> MissingFlowmon, metrics |-> MissingFile]
    /\ cli_pc = "idle" /\ cli_exit = -1 /\ cli_exc = ""

InitUnits ==
    /\ unit_token \in UnitTokens /\ unit_result = NotCalled
    /\ ParseIdle /\ BatchIdle /\ MergeIdle /\ SetupIdle /\ CliIdle

InitParse ==
    /\ flowmon_doc \in FlowmonDocs /\ parse_result = NotParsed
    /\ UnitIdle /\ BatchIdle /\ MergeIdle /\ SetupIdle /\ CliIdle

InitBatch ==
    /\ input_runs \in BatchInputs /\ run_pos = 1 /\ run_outputs = <<>>
    /\ main_status = "running"
    /\ UnitIdle /\ ParseIdle /\ MergeIdle /\ SetupIdle /\ CliIdle

InitMerge ==
    /\ run_numbers \in SeqsUpTo(RunIds, MaxRequested)
    /\ input_files \in MergeInputs
    /\ load_pos = 1 /\ data = <<>> /\ log = <<>> /\ load_status = "loading"
    /\ comparison = <<>>
    /\ UnitIdle /\ ParseIdle /\ BatchIdle /\ SetupIdle /\ CliIdle

InitSetup ==
    /\ versions_dir \in VersionsDirs /\ versions_initial = versions_dir
    /\ setup_version = "" /\ setup_count = 0
    /\ UnitIdle /\ ParseIdle /\ BatchIdle /\ MergeIdle /\ CliIdle

InitCli ==
    /\ cli_main \in CliMains /\ cli_version = "v1" /\ cli_input \in CliInputs
    /\ cli_pc = "start" /\ cli_exit = -1 /\ cli_exc = ""
    /\ versions_dir \in CliVersionsDirs /\ versions_initial = versions_dir
    /\ setup_version = "" /\ setup_count = -1
    /\ UnitIdle /\ ParseIdle /\ BatchIdle /\ MergeIdle

Init == InitUnits \/ InitParse \/ InitBatch \/ InitMerge \/ InitSetup \/ InitCli

(* ------------------------------- the steps ------------------------------ *)

\* a call of parse_time_with_units
NormalizeTime ==
    /\ unit_result = NotCalled
    /\ unit_result' = parse_time_with_units(unit_token)
    /\ UNCHANGED <<unit_token, parse_vars, batch_vars, merge_vars, setup_vars, cli_vars>>

\* a call of parse_flowmon
ParseFlowmon ==
    /\ parse_result = NotParsed
    /\ parse_result' = parse_flowmon(flowmon_doc)
    /\ UNCHANGED <<flowmon_doc, unit_vars, batch_vars, merge_vars, setup_vars, cli_vars>>

\* analyzer.py main: one iteration of the loop over the input directory
ProcessRun ==
    /\ main_status = "running"
    /\ run_pos <= Len(input_runs)
    /\ \E run \in {input_runs[run_pos]} : \E out \in {process_run_directory(run)} :
           IF ~run.isdir
           THEN /\ run_pos' = run_pos + 1
                /\ UNCHANGED <<run_outputs, main_status>>
           ELSE IF out.exc /= ""
           THEN /\ main_status' = out.exc
                /\ UNCHANGED <<run_pos, run_outputs>>
           ELSE /\ run_outputs' = Append(run_outputs,
                                    [run |-> run_pos, plots |-> out.plots,
                                     summary |-> out.summary])
                /\ run_pos' = run_pos + 1
                /\ UNCHANGED main_status
    /\ UNCHANGED <<input_runs, unit_vars, parse_vars, merge_vars, setup_vars, cli_vars>>

\* analyzer.py main: the loop is over, "Analysis complete" is printed
MainComplete ==
    /\ main_status = "running"
    /\ run_pos > Len(input_runs)
    /\ main_status' = "complete"
    /\ UNCHANGED <<input_runs, run_pos, run_outputs, unit_vars, parse_vars, merge_vars,
                   setup_vars, cli_vars>>

\* graph_merger load_simulation_data: one iteration of the loop
LoadRun ==
    /\ load_status = "loading"
    /\ load_pos <= Len(run_numbers)
    /\ \E r \in {load_run(run_numbers[load_pos], input_files[run_numbers[load_pos]], data)} :
           /\ data' = r.data
           /\ log' = log \o r.logged
           /\ IF r.stop
              THEN load_status' = "returned" /\ UNCHANGED load_pos
              ELSE load_pos' = load_pos + 1 /\ UNCHANGED load_status
    /\ UNCHANGED <<run_numbers, input_files, comparison, unit_vars, parse_vars, batch_vars,
                   setup_vars, cli_vars>>

\* graph_merger load_simulation_data: return data
LoadReturn ==
    /\ load_status = "loading"
    /\ load_pos > Len(run_numbers)
    /\ load_status' = "returned"
    /\ UNCHANGED <<run_numbers, input_files, load_pos, data, log, comparison, unit_vars,
                   parse_vars, batch_vars, setup_vars, cli_vars>>

\* the series plot_metric draws for a metric: one per loaded run, in the
\* order of data.items()
plot_metric(d, metric) ==
    [metric |-> metric,
     series |-> [i \in 1..Len(d) |->
                   [run |-> d[i].run, time |-> Column(d[i].df, ColTime),
                    values |-> Column(d[i].df, metric)]]]

ComparedMetrics == <<ColAvgThroughput, ColAvgLatency, ColAvgPacketLoss>>

\* graph_merger compare_runs after load_simulation_data returned
CompareRuns ==
    /\ load_status = "returned"
    /\ IF data = <<>>
       THEN load_status' = "no data" /\ UNCHANGED comparison
       ELSE /\ comparison' = [m \in 1..Len(ComparedMetrics) |->
                                plot_metric(data, ComparedMetrics[m])]
            /\ load_status' = "compared"
    /\ UNCHANGED <<run_numbers, input_files, load_pos, data, log, unit_vars, parse_vars,
                   batch_vars, setup_vars, cli_vars>>

\* a call of setup_version_directory(versions_dir, version)
SetupVersionDirectory ==
    /\ setup_count >= 0
    /\ setup_count < MaxSetupCalls
    /\ \E version \in Versions :
         /\ versions_dir' = setup_version_directory(versions_dir, version)
         /\ setup_version' = version
    /\ setup_count' = setup_count + 1
    /\ UNCHANGED <<versions_initial, unit_vars, parse_vars, batch_vars, merge_vars, cli_vars>>

VersionDir == versions_dir.items[cli_version]
ReportsDir == VersionDir.items["reports"]
PlotsDir == VersionDir.items["plots"]

\* versions_dir with the directory sub of the version replaced
WithSubDir(sub, node) ==
    PutItem(versions_dir, cli_version, PutItem(VersionDir, sub, node))

\* sys.exit(code), or the exception exc leaving main (exit code 1)
Exit(code, exc) ==
    cli_pc' = "exited" /\ cli_exit' = code /\ cli_exc' = exc

\* the file the plots and the report are made from
MetricsSource ==
    IF cli_main = "src/main.py" THEN ReportsDir.items["flowmon_parsed.csv"]
    ELSE VersionDir.items["simulation_metrics.csv"]

\* main: setup_version_directory and copy_input_files
CliSetup ==
    /\ cli_pc = "start"
    /\ \E base \in {setup_version_directory(versions_dir, cli_version)} :
         versions_dir' = PutItem(base, cli_version,
                                 copy_input_files(cli_input, base.items[cli_version]))
    /\ cli_pc' = "copied"
    /\ UNCHANGED <<cli_main, cli_version, cli_input, cli_exit, cli_exc, versions_initial,
                   setup_version, setup_count, unit_vars, parse_vars, batch_vars, merge_vars>>

\* main: the two os.path.isfile checks of the copied input files
CliCheckInputs ==
    /\ cli_pc = "copied"
    /\ IF ~IsFile(VersionDir, "flowmon.xml") \/ ~IsFile(VersionDir, "simulation_metrics.csv")
       THEN Exit(1, "")
       ELSE cli_pc' = "checked" /\ UNCHANGED <<cli_exit, cli_exc>>
    /\ UNCHANGED <<cli_main, cli_version, cli_input, setup_vars, unit_vars, parse_vars,
                   batch_vars, merge_vars>>

\* main: parse_flowmon(flowmon_file, parsed_flowmon_csv)
CliParse ==
    /\ cli_pc = "checked"
    /\ \E r \in {parse_flowmon(VersionDir.items["flowmon.xml"].data[1].doc)} :
         IF r.status = "raised"
         THEN Exit(1, r.exc) /\ UNCHANGED versions_dir
         ELSE /\ cli_pc' = "parsed"
              /\ versions_dir' =
                   IF r.status = "saved"
                   THEN WithSubDir("reports",
                          PutItem(ReportsDir, "flowmon_parsed.csv",
                                  File(CsvFile(flow_table_frame(r.csv)))))
                   ELSE versions_dir
              /\ UNCHANGED <<cli_exit, cli_exc>>
    /\ UNCHANGED <<cli_main, cli_version, cli_input, versions_initial, setup_version,
                   setup_count, unit_vars, parse_vars, batch_vars, merge_vars>>

\* src/main.py: the check that the table was written;
\* src/analyzer/main.py: os.makedirs(plots_dir, exist_ok=True)
CliAfterParse ==
    /\ cli_pc = "parsed"
    /\ IF cli_main = "src/main.py"
       THEN /\ IF ~IsFile(ReportsDir, "flowmon_parsed.csv")
               THEN Exit(1, "")
               ELSE cli_pc' = "ready" /\ UNCHANGED <<cli_exit, cli_exc>>
            /\ UNCHANGED versions_dir
       ELSE /\ versions_dir' = PutItem(versions_dir, cli_version,
                                       makedirs(VersionDir, "plots"))
            /\ cli_pc' = "ready" /\ UNCHANGED <<cli_exit, cli_exc>>
    /\ UNCHANGED <<cli_main, cli_version, cli_input, versions_initial, setup_version,
                   setup_count, unit_vars, parse_vars, batch_vars, merge_vars>>

\* main: plot_all_metrics(file, plots_dir)
CliPlot ==
    /\ cli_pc = "ready"
    /\ \E rd \in {read_csv(MetricsSource)} :
         IF rd.exc /= ""
         THEN Exit(1, rd.exc) /\ UNCHANGED versions_dir
         ELSE \E p \in {plot_all_metrics(rd.df[1])} :
                /\ versions_dir' = WithSubDir("plots", SaveAll(PlotsDir, p.saved))
                /\ IF p.exc /= ""
                   THEN Exit(1, p.exc)
                   ELSE cli_pc' = "plotted" /\ UNCHANGED <<cli_exit, cli_exc>>
    /\ UNCHANGED <<cli_main, cli_version, cli_input, versions_initial, setup_version,
                   setup_count, unit_vars, parse_vars, batch_vars, merge_vars>>

\* main: generate_report(file, plots_dir, report_file), the completion
\* message and the return (exit code 0)
CliReport ==
    /\ cli_pc = "plotted"
    /\ \E g \in {generate_report(read_csv(MetricsSource).df[1])} :
         IF g.exc /= ""
         THEN Exit(1, g.exc) /\ UNCHANGED versions_dir
         ELSE /\ versions_dir' =
                   WithSubDir("reports",
                     PutItem(ReportsDir, "simulation-report.md",
                             File([kind |-> "report", report |-> g.report,
                                   plots |-> DOMAIN PlotsDir.items])))
              /\ Exit(0, "")
    /\ UNCHANGED <<cli_main, cli_version, cli_input, versions_initial, setup_version,
                   setup_count, unit_vars, parse_vars, batch_vars, merge_vars>>

NextUnits == NormalizeTime
NextParse == ParseFlowmon
NextBatch == ProcessRun \/ MainComplete
NextMerge == LoadRun \/ LoadReturn \/ CompareRuns
NextSetup == SetupVersionDirectory
NextCli == CliSetup \/ CliCheckInputs \/ CliParse \/ CliAfterParse \/ CliPlot \/ CliReport
Next ==
    \/ NormalizeTime \/ ParseFlowmon \/ ProcessRun \/ MainComplete
    \/ LoadRun \/ LoadReturn \/ CompareRuns \/ SetupVersionDirectory
    \/ CliSetup \/ CliCheckInputs \/ CliParse \/ CliAfterParse \/ CliPlot \/ CliReport

SpecUnits == InitUnits /\ [][NextUnits]_vars
SpecParse == InitParse /\ [][NextParse]_vars
SpecBatch == InitBatch /\ [][NextBatch]_vars
SpecMerge == InitMerge /\ [][NextMerge]_vars
SpecSetup == InitSetup /\ [][NextSetup]_vars
SpecCli == InitCli /\ [][NextCli]_vars
Spec == Init /\ [][Next]_vars

(* ------------------------------ properties ------------------------------ *)

Called == parse_result.status \notin {"not called", "idle"}
Finished == parse_result.status \in {"saved", "warning"}
Records == parse_result.flows
Table == parse_result.csv

\* C1: with the range starting at 5000 and 5 entities, a flow whose
\* destination port p is in 5000..5004 is assigned entity p - 5000, a flow
\* with any other port is assigned no entity (it has no row with an entity
\* index), and a port never has two entities.
C1_PortClassification ==
    Finished =>
      /\ \A i \in 1..Len(Records) :
           IF Records[i].DestinationPort \in 5000..5004
           THEN \E j \in 1..Len(Table) :
                  /\ Table[j].FlowID = Records[i].FlowID
                  /\ Table[j].DestinationPort = Records[i].DestinationPort
                  /\ Table[j].UE_Index = Records[i].DestinationPort - 5000
           ELSE \A j \in 1..Len(Table) :
                  Table[j].DestinationPort /= Records[i].DestinationPort
      /\ \A j \in 1..Len(Table) :
           /\ Table[j].UE_Index \in 0..4
           /\ Table[j].UE_Index = Table[j].DestinationPort - 5000
      /\ \A j, k \in 1..Len(Table) :
           Table[j].DestinationPort = Table[k].DestinationPort
             => Table[j].UE_Index = Table[k].UE_Index

\* a trace with port 5004 (entity 4) and port 5005 (no entity)
C1_Witness ==
    /\ parse_result.status = "saved"
    /\ \E i \in 1..Len(Records) : Records[i].DestinationPort = 5005
    /\ \E j \in 1..Len(Table) :
         Table[j].DestinationPort = 5004 /\ Table[j].UE_Index = 4
    /\ \A j \in 1..Len(Table) : Table[j].DestinationPort /= 5005

\* C2: a record with duration <= 0 has throughput exactly 0 (not nan, not
\* negative); a record with duration > 0 has throughput rx_bytes * 8 /
\* duration scaled by 1/1000 (Kbps).
C2_Throughput ==
    \A i \in 1..Len(Records) :
      /\ ~IsNaN(Records[i].Throughput)
      /\ Records[i].Throughput[1] >= 0 \/ Records[i].RxBytes < 0
      /\ Records[i].Duration[1] <= 0 => Records[i].Throughput = Zero
      /\ Records[i].Duration[1] > 0 =>
           RMul(Records[i].Throughput, RMul(Records[i].Duration, FromInt(1000)))
             = FromInt(Records[i].RxBytes * 8)

\* a record with a negative duration and bytes received
C2_Witness ==
    \E i \in 1..Len(Records) :
      /\ Records[i].Duration[1] < 0
      /\ Records[i].RxBytes > 0
      /\ Records[i].Throughput = Zero

\* the longest prefix of a token made of the characters of a number
RECURSIVE NumericPrefix(_)
NumericPrefix(t) ==
    IF t /= <<>> /\ (IsDigit(Head(t)) \/ Head(t) \in {".", "-", "+"})
    THEN <<Head(t)>> \o NumericPrefix(Tail(t))
    ELSE <<>>

SuffixOf(t) == SubSeq(t, Len(NumericPrefix(t)) + 1, Len(t))

\* C6: for a numeric value v, v"ns" yields v * 1e-6, v"ms" yields v, v"s"
\* yields v * 1e3 and bare v yields v; "1000ns" and "0.001ms" normalise to
\* the same value; a token ending in "ns" or "ms" is never scaled as seconds.
C6_UnitNormalization ==
    (unit_result.exc \notin {"not called", "idle"}
       /\ PyFloat(NumericPrefix(unit_token)).exc = "") =>
      /\ SuffixOf(unit_token) = <<"n", "s">> =>
           unit_result = Ok(RDiv(PyFloat(NumericPrefix(unit_token)).val, FromInt(1000000)))
      /\ SuffixOf(unit_token) = <<"m", "s">> =>
           unit_result = Ok(PyFloat(NumericPrefix(unit_token)).val)
      /\ SuffixOf(unit_token) = <<"s">> =>
           unit_result = Ok(RMul(PyFloat(NumericPrefix(unit_token)).val, FromInt(1000)))
      /\ SuffixOf(unit_token) = <<>> =>
           unit_result = Ok(PyFloat(NumericPrefix(unit_token)).val)
      /\ unit_token = Str1000ns => unit_result = parse_time_with_units(StrMilliMs)
      /\ SuffixOf(unit_token) \in {<<"n", "s">>, <<"m", "s">>} =>
           \/ PyFloat(NumericPrefix(unit_token)).val = Zero
           \/ unit_result /= Ok(RMul(PyFloat(NumericPrefix(unit_token)).val, FromInt(1000)))

\* "1000ns" normalised to a thousandth of a millisecond
C6_Witness ==
    unit_token = Str1000ns /\ unit_result = Ok(<<1, 1000>>)

\* C10: the table parse_flowmon writes holds exactly the records whose
\* destination port is inside 5000..5004, in document order: an unmatched
\* flow is in no row the averages are computed from.
C10_TableHoldsMatchedOnly ==
    parse_result.status = "saved" =>
      /\ \A j \in 1..Len(Table) : Table[j].DestinationPort \in 5000..5004
      /\ Len(Table) = Cardinality({i \in 1..Len(Records) :
                                     Records[i].DestinationPort \in 5000..5004})
      /\ \A i \in 1..Len(Records) :
           Records[i].DestinationPort \in 5000..5004 =>
             \E j \in 1..Len(Table) :
               /\ j <= i
               /\ Table[j].FlowID = Records[i].FlowID
               /\ Table[j].Throughput = Records[i].Throughput
               /\ Table[j].AvgDelay = Records[i].AvgDelay
               /\ Table[j].PacketLoss = Records[i].PacketLoss

\* a written table that leaves out an unmatched record of the trace
C10_Witness ==
    /\ parse_result.status = "saved"
    /\ \E i \in 1..Len(Records) : Records[i].DestinationPort = 9999
    /\ Len(Table) < Len(Records)

\* C3: a record with rx_packets = 0 has avg_delay exactly 0, and a summary
\* over flows whose RxPackets have mean 0 reports the average delay 0; neither
\* ends in a division fault.
C3_ZeroRxZeroDelay ==
    /\ \A i \in 1..Len(Records) :
         Records[i].RxPackets = 0 => Records[i].AvgDelay = Zero
    /\ \A k \in 1..Len(run_outputs) :
         (run_outputs[k].summary.flow.present
            /\ run_outputs[k].summary.flow.total_rx = 0)
           => run_outputs[k].summary.flow.avg_delay = Zero
    /\ parse_result.exc /= "ZeroDivisionError"
    /\ main_status /= "ZeroDivisionError"

\* a flow with a positive delay sum and no packet received, parsed to a record
C3_Witness ==
    /\ parse_result.status = "saved"
    /\ Len(flowmon_doc.flows) = 1
    /\ flowmon_doc.flows[1].RxPackets = Elem(NatStr(0))
    /\ flowmon_doc.flows[1].DelaySum = Elem(StrDelay)
    /\ Len(Records) = 1
    /\ Records[1].RxPackets = 0
    /\ Records[1].AvgDelay = Zero

\* the elements of a Flow that parse_flowmon requires are present and numeric
Parseable(f) == flow_record([f EXCEPT !.DelaySum = Absent]).kind = "row"

\* C4: a flow with rx_packets > 0 has avg_delay = delay_sum / rx_packets in
\* milliseconds, delay_sum being the delay sum of the flow normalised to
\* milliseconds ("50ms" over 100 packets is 0.5 ms).
C4_AvgDelayOfNormalizedSum ==
    (Called /\ flowmon_doc.wellformed) =>
      \A i \in 1..Len(flowmon_doc.flows) :
        (/\ Parseable(flowmon_doc.flows[i])
         /\ flowmon_doc.flows[i].DelaySum.attr
         /\ parse_time_with_units(flowmon_doc.flows[i].DelaySum.value).exc = ""
         /\ PyInt(flowmon_doc.flows[i].RxPackets.value).val[1] > 0)
        => \E k \in 1..Len(Records) :
             /\ Records[k].FlowID = PyInt(flowmon_doc.flows[i].flowId.value).val[1]
             /\ Records[k].AvgDelay =
                  RDiv(parse_time_with_units(flowmon_doc.flows[i].DelaySum.value).val,
                       FromInt(Records[k].RxPackets))

\* C5: a summary whose flows transmitted no packet reports the loss rate as
\* nan, not as 0.
C5_LossRateNaNWithoutTx ==
    \A k \in 1..Len(run_outputs) :
      (run_outputs[k].summary.flow.present
         /\ run_outputs[k].summary.flow.total_tx = 0)
        => IsNaN(run_outputs[k].summary.flow.packet_loss_rate)

\* C7: a malformed Flow element does not end the parsing of the trace: every
\* well-formed Flow element of the trace still has its record.
C7_MalformedFlowIsSkipped ==
    (Called /\ flowmon_doc.wellformed) =>
      \A i \in 1..Len(flowmon_doc.flows) :
        flow_record(flowmon_doc.flows[i]).kind = "row" =>
          \E k \in 1..Len(Records) :
            Records[k] = flow_record(flowmon_doc.flows[i]).row[1]

\* a file that is there and that the run can be processed with
UsableCsv(c) == c.kind = "ok" /\ HasCol(c.table, ColTime) /\ HasCol(c.table, ColAvgLatency)
UsableXml(x) == x.kind = "ok" /\ x.flows /= <<>> /\ flow_stats(x.flows).exc = ""
Unavailable(f) == f.kind \in {"missing", "malformed"}

\* a run whose only faults are missing or malformed input files
OnlyFileFaults(run) ==
    /\ run.isdir
    /\ Unavailable(run.csv) \/ UsableCsv(run.csv)
    /\ Unavailable(run.xml) \/ UsableXml(run.xml)
    /\ Unavailable(run.csv) \/ Unavailable(run.xml)

\* C8: a run whose input file is missing or not well-formed does not end the
\* batch: the loop of main is never left at such a run.
C8_FileFaultEndsOnlyItsRun ==
    main_status \notin {"idle", "running", "complete"} =>
      ~OnlyFileFaults(input_runs[run_pos])

\* no present element of the flow is empty or non-numeric
OnlyAbsences(f) ==
    /\ f.flowId.present => PyInt(f.flowId.value).exc = ""
    /\ \A e \in {f.TxPort, f.RxPort} : e.present => (e.attr /\ PyInt(e.value).exc = "")
    /\ \A e \in {f.TxPackets, f.RxPackets, f.TxBytes, f.RxBytes, f.ReTx} :
         e.present => (e.attr /\ PyInt(e.value).exc = "")
    /\ \A e \in {f.DelaySum, f.JitterSum, f.Loss, f.Duration} :
         e.present => (e.attr /\ PyFloat(e.value).exc = "")

\* C9: every Flow element yields a record, whatever attribute is absent.
C9_EveryFlowYieldsRecord ==
    (Called /\ flowmon_doc.wellformed /\ flowmon_doc.flows /= <<>>
       /\ \A i \in 1..Len(flowmon_doc.flows) : OnlyAbsences(flowmon_doc.flows[i]))
      => /\ parse_result.status \in {"saved", "warning"}
         /\ Len(Records) = Len(flowmon_doc.flows)

(* ---- the aggregates, stated from the cells of the table ---- *)

\* the rows of df whose cell in column i is a number
PresentCells(df, i) == {r \in 1..Len(df.rows) : ~IsNaN(df.rows[r][i])}

RECURSIVE SumCells(_, _, _)
SumCells(df, i, R) ==
    IF R = {} THEN Zero
    ELSE LET r == CHOOSE x \in R : TRUE
         IN  RAdd(df.rows[r][i], SumCells(df, i, R \ {r}))

\* the arithmetic mean of column i over the time steps that have a value
ColAvg(df, i) ==
    IF PresentCells(df, i) = {} THEN NaN
    ELSE RDiv(SumCells(df, i, PresentCells(df, i)),
              FromInt(Cardinality(PresentCells(df, i))))

\* the columns whose name contains the keyword
Matched(df, keyword) == {i \in 1..Len(df.cols) : Contains(df.cols[i], keyword)}

RECURSIVE SumColAvg(_, _)
SumColAvg(df, I) ==
    IF I = {} THEN Zero
    ELSE LET i == CHOOSE x \in I : TRUE
         IN  RAdd(ColAvg(df, i), SumColAvg(df, I \ {i}))

\* the mean, over the matched columns that have one, of the column means
OverallOf(df, keyword) ==
    LET I == {i \in Matched(df, keyword) : ~IsNaN(ColAvg(df, i))}
    IN  IF I = {} THEN NaN ELSE RDiv(SumColAvg(df, I), FromInt(Cardinality(I)))

RECURSIVE SumAllCells(_, _)
SumAllCells(df, I) ==
    IF I = {} THEN Zero
    ELSE LET i == CHOOSE x \in I : TRUE
         IN  RAdd(SumCells(df, i, PresentCells(df, i)), SumAllCells(df, I \ {i}))

RECURSIVE CountAllCells(_, _)
CountAllCells(df, I) ==
    IF I = {} THEN 0
    ELSE LET i == CHOOSE x \in I : TRUE
         IN  Cardinality(PresentCells(df, i)) + CountAllCells(df, I \ {i})

\* one mean over all the cells of the matched columns
GlobalMean(df, keyword) ==
    IF CountAllCells(df, Matched(df, keyword)) = 0 THEN NaN
    ELSE RDiv(SumAllCells(df, Matched(df, keyword)),
              FromInt(CountAllCells(df, Matched(df, keyword))))

\* the time-series table of the run a summary was made for
TableOf(k) == input_runs[run_outputs[k].run].csv.table

\* the report of a command line run that ended with exit code 0
ReportWritten == ReportsDir.items["simulation-report.md"].data[1].report

\* C11: each overall figure of a summary or a report is the mean of the
\* means of the columns whose name contains the keyword of the metric: the
\* mean of each matched column over its time steps, then the mean of those
\* column means over exactly the matched columns.
C11_MeanOfColumnMeans ==
    /\ \A k \in 1..Len(run_outputs) :
         run_outputs[k].summary.key.present =>
           /\ run_outputs[k].summary.key.avg_throughput = OverallOf(TableOf(k), KwThroughput)
           /\ run_outputs[k].summary.key.avg_packet_loss = OverallOf(TableOf(k), KwPacketLoss)
           /\ run_outputs[k].summary.key.avg_jitter = OverallOf(TableOf(k), KwJitter)
    /\ cli_exit = 0 =>
         /\ ReportWritten.avg_throughput = OverallOf(MetricsSource.data[1].table, KwThroughput)
         /\ ReportWritten.packet_loss = OverallOf(MetricsSource.data[1].table, KwPacketLoss)

\* a summary whose loss figure, 6, is the mean of the column means 2 and 10,
\* where the mean over all cells is 14/3
C11_Witness ==
    \E k \in 1..Len(run_outputs) :
      /\ run_outputs[k].summary.key.present
      /\ run_outputs[k].summary.key.avg_packet_loss = <<6, 1>>
      /\ GlobalMean(TableOf(k), KwPacketLoss) = <<14, 3>>

\* the run at position i of the batch was taken up by the loop of main
Attempted(i) ==
    \/ run_pos > i
    \/ run_pos = i /\ main_status \notin {"idle", "running", "complete"}

\* a run whose only fault is a time-series table without the latency column
OnlyLatencyMissing(run) ==
    /\ run.isdir
    /\ run.csv.kind = "ok"
    /\ HasCol(run.csv.table, ColTime)
    /\ ~HasCol(run.csv.table, ColAvgLatency)
    /\ Unavailable(run.xml) \/ UsableXml(run.xml)

\* C12: a run whose table lacks the latency column still gets its summary,
\* with the throughput and loss figures of the table and the latency figure
\* left as not-a-number; no exception leaves the aggregation.
C12_MissingLatencyDegrades ==
    \A i \in 1..Len(input_runs) :
      (Attempted(i) /\ OnlyLatencyMissing(input_runs[i])) =>
        \E k \in 1..Len(run_outputs) :
          /\ run_outputs[k].run = i
          /\ run_outputs[k].summary.key.present
          /\ run_outputs[k].summary.key.avg_throughput
               = OverallOf(input_runs[i].csv.table, KwThroughput)
          /\ run_outputs[k].summary.key.avg_packet_loss
               = OverallOf(input_runs[i].csv.table, KwPacketLoss)
          /\ IsNaN(run_outputs[k].summary.key.avg_latency)

\* the flows parse_flowmon_xml returned for the run a summary was made for
FlowsOf(k) == parse_flowmon_xml(input_runs[run_outputs[k].run].xml).rows

\* the loss rate of one flow, nan for a flow that transmitted nothing
FlowLossRate(row) ==
    IF row.TxPackets = 0 THEN NaN
    ELSE RMul(RSub(FromInt(1), Rat(row.RxPackets, row.TxPackets)), FromInt(100))

MeanOfFlowRates(rows) == Mean([i \in 1..Len(rows) |-> FlowLossRate(rows[i])])

\* C15: the loss rate of the summary is computed from the totals of the
\* trace: total_tx and total_rx are the sums of TxPackets and RxPackets over
\* the parsed flows, and rate * total_tx = (total_tx - total_rx) * 100.
C15_LossRateFromTotals ==
    \A k \in 1..Len(run_outputs) :
      run_outputs[k].summary.flow.present =>
        /\ run_outputs[k].summary.flow.total_tx = IntSum(TxOf(FlowsOf(k)))
        /\ run_outputs[k].summary.flow.total_rx = IntSum(RxOf(FlowsOf(k)))
        /\ run_outputs[k].summary.flow.total_tx > 0 =>
             RMul(run_outputs[k].summary.flow.packet_loss_rate,
                  FromInt(run_outputs[k].summary.flow.total_tx))
               = FromInt((run_outputs[k].summary.flow.total_tx
                            - run_outputs[k].summary.flow.total_rx) * 100)

\* a trace of a flow that lost all of 100 packets and a flow that lost none
\* of 50: the rate from the totals is 200/3, the mean of the flow rates 50
C15_Witness ==
    \E k \in 1..Len(run_outputs) :
      /\ run_outputs[k].summary.flow.present
      /\ run_outputs[k].summary.flow.total_tx = 150
      /\ run_outputs[k].summary.flow.total_rx = 50
      /\ run_outputs[k].summary.flow.packet_loss_rate = <<200, 3>>
      /\ MeanOfFlowRates(FlowsOf(k)) = <<50, 1>>

\* the run numbers the loop of the loader has gone through
Requested == SubSeq(run_numbers, 1, load_pos - 1)

\* the table of the run exists and has the three required columns
ValidRun(r) ==
    /\ input_files[r].kind = "ok"
    /\ \A c \in {ColTime, ColAvgThroughput, ColAvgLatency} :
         \E i \in 1..Len(input_files[r].table.cols) : input_files[r].table.cols[i] = c

\* the place of the first request of run r
FirstRequest(r) == CHOOSE j \in 1..Len(Requested) :
                     Requested[j] = r /\ \A h \in 1..(j - 1) : Requested[h] /= r

LossSubColumns(t) ==
    {i \in 1..Len(t.cols) :
       Contains(t.cols[i], KwPacketLossPct) /\ t.cols[i] /= ColAvgPacketLoss}

RECURSIVE SumRow(_, _)
SumRow(row, I) ==
    IF I = {} THEN Zero
    ELSE LET i == CHOOSE x \in I : TRUE
         IN  RAdd(row[i], SumRow(row, I \ {i}))

\* the mean of the cells of the row in the columns I that hold a number
RowAvg(row, I) ==
    LET J == {i \in I : ~IsNaN(row[i])}
    IN  IF J = {} THEN NaN ELSE RDiv(SumRow(row, J), FromInt(Cardinality(J)))

\* C14: the loss column of a loaded run is the aggregate loss column of its
\* table when the table has one; when it has none, each row holds the mean
\* of the per-entity loss columns of the row, or 0 when there is no such
\* column.
C14_LossSynthesisOnlyWhenAbsent ==
    \A k \in 1..Len(data) :
      LET t == input_files[data[k].run].table
          loss == Column(data[k].df, ColAvgPacketLoss)
      IN  \A r \in 1..Len(t.rows) :
            loss[r] =
              IF \E i \in 1..Len(t.cols) : t.cols[i] = ColAvgPacketLoss
              THEN t.rows[r][CHOOSE i \in 1..Len(t.cols) : t.cols[i] = ColAvgPacketLoss]
              ELSE IF LossSubColumns(t) = {} THEN Zero
              ELSE RowAvg(t.rows[r], LossSubColumns(t))

\* an input file of the command line run is missing
InputMissing == cli_input.flowmon.kind = "missing" \/ cli_input.metrics.kind = "missing"

\* both input files are there and valid: a well-formed trace whose flows all
\* parse and of which one at least is matched, and a readable time-series
\* table with its time, throughput and latency columns
InputValid ==
    /\ cli_input.flowmon.kind = "ok"
    /\ parse_flowmon(cli_input.flowmon.doc).status = "saved"
    /\ cli_input.metrics.kind = "ok"
    /\ HasCol(cli_input.metrics.table, ColTime)
    /\ HasCol(cli_input.metrics.table, ColAvgThroughput)
    /\ HasCol(cli_input.metrics.table, ColAvgLatency)

\* C16: the command line run ends with exit code 1, nothing parsed, drawn or
\* reported, when flowmon.xml or simulation_metrics.csv is missing from the
\* input; it ends with exit code 0, the flow table, the plots and the report
\* written, when both files are there and valid.
C16_CliExitCodes ==
    cli_pc = "exited" =>
      /\ InputMissing =>
           /\ cli_exit = 1
           /\ DOMAIN ReportsDir.items = {}
           /\ DOMAIN PlotsDir.items = {}
      /\ InputValid =>
           /\ cli_exit = 0
           /\ IsFile(ReportsDir, "flowmon_parsed.csv")
           /\ IsFile(ReportsDir, "simulation-report.md")
           /\ DOMAIN PlotsDir.items = {PngThroughput, PngLatency, PngPacketLoss}

\* C17: a well-formed trace of which no Flow element is retained (it has
\* none, or each is skipped) does not raise: parse_flowmon returns after the
\* warning that no flow matched, and writes no table.
C17_EmptyResultNotRaised ==
    (Called /\ flowmon_doc.wellformed
       /\ \A i \in 1..Len(flowmon_doc.flows) : flow_record(flowmon_doc.flows[i]).kind = "skip")
      => /\ parse_result.status = "warning"
         /\ parse_result.exc = ""
         /\ Table = <<>>

\* src/main.py has called parse_flowmon, which wrote the table
TableWritten ==
    /\ cli_main = "src/main.py"
    /\ cli_pc \in {"parsed", "ready", "plotted", "exited"}
    /\ IsFile(ReportsDir, "flowmon_parsed.csv")

\* C18: in src/main.py, the table parse_flowmon writes has every column
\* plot_all_metrics and generate_report read from it (a Throughput(Kbps)
\* column, AvgDelay(ms), Avg_Latency(ms)), and the run whose table was
\* written ends with the completion message, exit code 0.
C18_TableFeedsPlotsAndReport ==
    TableWritten =>
      /\ \E i \in 1..Len(ReportsDir.items["flowmon_parsed.csv"].data[1].table.cols) :
           Contains(ReportsDir.items["flowmon_parsed.csv"].data[1].table.cols[i],
                    ColThroughputKbps)
      /\ \A c \in {ColAvgDelay, ColAvgLatency} :
           \E i \in 1..Len(ReportsDir.items["flowmon_parsed.csv"].data[1].table.cols) :
             ReportsDir.items["flowmon_parsed.csv"].data[1].table.cols[i] = c
      /\ cli_pc = "exited" => (cli_exit = 0 /\ cli_exc = "")

\* what a version directory holds after setup_version_directory
IsFreshVersionDir(node) ==
    /\ node.kind = "dir"
    /\ DOMAIN node.items = {"plots", "reports"}
    /\ \A n \in {"plots", "reports"} :
         node.items[n].kind = "dir" /\ DOMAIN node.items[n].items = {}

\* C19: a call of setup_version_directory(base_dir, version) leaves
\* base_dir/version with exactly the two empty directories plots and
\* reports, whatever it held; every other entry of base_dir is as it was;
\* and a second call in a row for the same version changes nothing.
C19_SetupVersionDirectory ==
    [][setup_count' = setup_count + 1 =>
         /\ setup_version' \in DOMAIN versions_dir'.items
         /\ IsFreshVersionDir(versions_dir'.items[setup_version'])
         /\ (DOMAIN versions_dir'.items) \ {setup_version'}
              = (DOMAIN versions_dir.items) \ {setup_version'}
         /\ \A w \in (DOMAIN versions_dir.items) \ {setup_version'} :
              versions_dir'.items[w] = versions_dir.items[w]
         /\ (setup_count >= 1 /\ setup_version = setup_version') =>
              versions_dir' = versions_dir]_vars

\* two calls for v1, which held an old trace and an old plot: v1 is fresh,
\* and v2, with its old table, is as it was found
C19_Witness ==
    /\ setup_count = 2
    /\ setup_version = "v1"
    /\ Exists(versions_initial, "v1")
    /\ {"flowmon.xml", "plots"} \subseteq DOMAIN versions_initial.items["v1"].items
    /\ Exists(versions_initial.items["v1"].items["plots"], PngLatency)
    /\ IsFreshVersionDir(versions_dir.items["v1"])
    /\ Exists(versions_initial, "v2")
    /\ Exists(versions_initial.items["v2"], "reports")
    /\ versions_dir.items["v2"] = versions_initial.items["v2"]

====
